---- MODULE Spec2Model ----
(***************************************************************************)
(* Model of the Vihaya registration form components.                       *)
(*                                                                         *)
(* Two variants of VihayaRegistrationForm exist: the pricing form (tiers,  *)
(* promo codes, platform fee, team roster) and the basic form (name,       *)
(* email, phone and custom fields only).  One form instance is modelled;   *)
(* `variant` says which of the two it is.                                  *)
(*                                                                         *)
(* Optional JavaScript values (T | null | undefined) are sequences of      *)
(* length at most one: None is absent, Some(x) is present.                 *)
(*                                                                         *)
(* Amounts are JavaScript numbers.  The price computation divides by 100   *)
(* twice at most (percentage promo, then percentage fee), so every derived *)
(* amount is held exactly as an integer count of 1/Scale currency units.   *)
(***************************************************************************)
EXTENDS Integers, Sequences, FiniteSets, TLC

VARIABLES
    variant,            \* "pricing" | "basic": which form component this is
    serverEvent,        \* the event the server (or the caller) provides
    razorpay,           \* window.Razorpay is defined
    event,              \* useState event
    loading,            \* useState loading
    submitting,         \* useState submitting
    error,              \* useState error
    promoCode,          \* useState promoCode (text of the promo input)
    appliedPromo,       \* useState appliedPromo
    selectedPriceName,  \* useState selectedPriceName
    formData,           \* useState formData (the draft)
    pending,            \* setFormData updates of roster handlers not yet rendered
    initialEvent,       \* the event prop
    themeColor,         \* the themeColor prop
    activePricing,      \* useMemo cell
    baseAmount,         \* useMemo cell
    discountAmount,     \* useMemo cell
    platformFeeAmount,  \* useMemo cell
    getPending,         \* number of client.events.get calls in flight
    eventId,            \* the eventId prop
    getCalls,           \* number of client.events.get calls issued so far
    justApplied,        \* the handler that ran last was handleApplyPromo
    subs,               \* one record per handleSubmit invocation
    onSuccessLog,       \* calls of the onSuccess prop, in order
    onErrorLog,         \* calls of the onError prop, in order
    clientVersion,      \* which VihayaClient of the repository this is
    apiKey,             \* VihayaClient.apiKey
    extraHeaders,       \* VihayaClient.extraHeaders
    calls,              \* one record per call of VihayaClient.request
    overlays            \* one record per call of ui.showRegistration

formVars == <<variant, serverEvent, razorpay, event, loading, submitting,
              error, promoCode, appliedPromo, selectedPriceName, formData,
              pending,
              initialEvent, themeColor,
              activePricing, baseAmount, discountAmount, platformFeeAmount,
              getPending, eventId, getCalls, justApplied,
              subs, onSuccessLog, onErrorLog>>

clientVars == <<clientVersion, apiKey, extraHeaders, calls, overlays>>

teamVars == <<pending>>

vars == <<formVars, clientVars>>

pricingVars == <<activePricing, baseAmount, discountAmount, platformFeeAmount>>

----------------------------------------------------------------------------
\* Bounds of the model

MaxSubmissions == 2

\* events.get calls one form instance may issue
MaxGets == 2

\* Requests one client is followed through
MaxCalls == 2

\* Rows of the team roster
MaxMembers == 2

\* Roster actions dispatched between two renders
MaxPending == 2

\* Overlays one page opens
MaxOverlays == 2

\* Window messages one overlay's listener is followed through
MaxMessages == 2

----------------------------------------------------------------------------
\* Values

None == <<>>
Some(x) == <<x>>
IsSome(o) == o # <<>>
Val(o) == o[1]

Scale == 100 * 100

\* An object without keys: an empty customFields, an empty headers object
NoFields == << >>

Max(a, b) == IF a >= b THEN a ELSE b

Variants == {"pricing", "basic"}

Names == {"", "Ann"}

Tiers == << [name |-> "Student", amount |-> 300],
            [name |-> "Regular", amount |-> 1200] >>

PromoList == << [code |-> "SAVE10", type |-> "percentage", value |-> 10, isActive |-> TRUE],
                [code |-> "Flat500", type |-> "flat", value |-> 500, isActive |-> TRUE],
                [code |-> "OLD50", type |-> "percentage", value |-> 50, isActive |-> FALSE] >>

\* Platform-fee policies: hasPlatformFee, passPlatformFeeToUser, type, magnitude
FeePolicies ==
    { [has |-> FALSE, pass |-> FALSE, type |-> "flat", fee |-> None],
      [has |-> TRUE, pass |-> FALSE, type |-> "percentage", fee |-> Some(5)],
      [has |-> FALSE, pass |-> TRUE, type |-> "flat", fee |-> Some(20)],
      [has |-> TRUE, pass |-> TRUE, type |-> "flat", fee |-> Some(20)],
      [has |-> TRUE, pass |-> TRUE, type |-> "percentage", fee |-> Some(5)],
      [has |-> TRUE, pass |-> TRUE, type |-> "percentage", fee |-> None] }

MkEvent(free, price, special, tiers, promos, pol) ==
    [ title |-> "Conf",
      isFree |-> free,
      price |-> price,
      hasSpecialPrices |-> special,
      specialPrices |-> tiers,
      promoCodes |-> promos,
      hasPlatformFee |-> pol.has,
      passPlatformFeeToUser |-> pol.pass,
      platformFeeType |-> pol.type,
      platformFee |-> pol.fee,
      isTeamEvent |-> FALSE,
      customFields |-> <<>> ]

\* The events a server can return (VihayaEvent): every combination of the
\* flags the price computation reads
Events ==
    { MkEvent(free, price, special, Tiers, PromoList, pol) :
        free \in BOOLEAN, price \in {None, Some(1000)},
        special \in BOOLEAN, pol \in FeePolicies }

NoFee == [has |-> FALSE, pass |-> FALSE, type |-> "flat", fee |-> None]

\* The events the submission protocol is explored with: free and paid,
\* with and without tiers, with and without a promo list
ProtocolEvents ==
    { MkEvent(TRUE, None, FALSE, <<>>, <<>>, NoFee),
      MkEvent(TRUE, None, TRUE, <<Tiers[1]>>, <<>>, NoFee),
      MkEvent(FALSE, Some(1000), TRUE, <<Tiers[1]>>, <<>>, NoFee),
      MkEvent(FALSE, Some(1000), FALSE, <<>>, <<PromoList[2], PromoList[3]>>, NoFee) }

\* What the user can type into the promo input
PromoTexts == {"", "save10", "FLAT500", "old50", "nope"}

\* A team event
TeamEvent ==
    [MkEvent(TRUE, None, FALSE, <<>>, <<>>, NoFee) EXCEPT !.isTeamEvent = TRUE]

\* The member handleAddTeamMember appends
BlankMember == [name |-> "", email |-> "", phone |-> ""]

\* The inputs of a roster row, and what the user types into them
MemberFields == {"name", "phone"}

MemberTexts == {"A"}

\* The closed enumeration of custom-field types
FieldTypes == { "text", "email", "phone", "dropdown", "number", "date",
                "textarea", "info", "file" }

MkField(type, required) == [name |-> "f1", type |-> type, required |-> required]

\* Free events with one custom field, of every type, required or not
FieldEvents ==
    { [MkEvent(TRUE, None, FALSE, <<>>, <<>>, NoFee)
          EXCEPT !.customFields = <<MkField(t, r)>>] :
        t \in FieldTypes, r \in BOOLEAN }

\* What the user can enter into the control of a custom field
FieldValues == {"", "v"}

\* The themeColor prop: its default or a colour of the host page
ThemeColors == {"#0CF2A0", "#ff0000"}

\* The eventId prop: empty or naming an event
EventIds == {"", "evt_1"}

\* Messages of the errors a rejected client call carries
ApiMessages == {"Invalid email"}

RazorpayMissing == "Razorpay SDK not loaded. Please include the checkout script"
InvalidPromo == "Invalid or inactive promo code."
LoadFailed == "Failed to load event"

----------------------------------------------------------------------------
\* Pure helpers

\* String.prototype.toUpperCase on the strings of the model
ToUpperCase(s) ==
    CASE s = "save10" -> "SAVE10"
      [] s = "Flat500" -> "FLAT500"
      [] s = "old50" -> "OLD50"
      [] s = "nope" -> "NOPE"
      [] OTHER -> s

\* Array.prototype.find: the element at the lowest of the indices that
\* satisfy the predicate, or undefined when there is none
FirstAt(arr, hits) ==
    IF hits = {} THEN None
    ELSE Some(arr[CHOOSE k \in hits : \A j \in hits : k <= j])

\* Object spread {...a, ...b}: the keys of b are written after those of a
Spread(a, b) ==
    [k \in DOMAIN a \cup DOMAIN b |-> IF k \in DOMAIN b THEN b[k] ELSE a[k]]

\* x || 0 for an optional number
OrZero(o) == IF IsSome(o) THEN Val(o) ELSE 0

\* The texts a user types for event ev: a code of its promo list, in any
\* letter case, a code that is not on the list, or nothing (input cleared)
TypedTexts(ev) ==
    { t \in PromoTexts :
        \/ t = ""
        \/ t = "nope"
        \/ \E k \in 1..Len(ev.promoCodes) :
              ToUpperCase(ev.promoCodes[k].code) = ToUpperCase(t) }

----------------------------------------------------------------------------
\* Price computation of the pricing form

ActivePricingOf(sel, ev) ==
    IF ~IsSome(ev) THEN None
    ELSE IF IsSome(sel)
         THEN LET prices == Val(ev).specialPrices
              IN  FirstAt(prices, {k \in 1..Len(prices) : prices[k].name = Val(sel)})
         ELSE None

\* Variant of BaseAmountOf that ignores the selected tier
BaseAmountOf_FlatOnly(ap, ev) ==
    IF ~IsSome(ev) THEN 0 ELSE OrZero(Val(ev).price) * Scale

BaseAmountOf(ap, ev) ==
    IF ~IsSome(ev) THEN 0
    ELSE IF IsSome(ap) THEN Val(ap).amount * Scale
         ELSE OrZero(Val(ev).price) * Scale

\* Variant of DiscountAmountOf that treats every promo as flat
DiscountAmountOf_AlwaysFlat(promo, base) ==
    IF ~IsSome(promo) THEN 0 ELSE Val(promo).value * Scale

DiscountAmountOf(promo, base) ==
    IF ~IsSome(promo) THEN 0
    ELSE IF Val(promo).type = "percentage"
         THEN (base * Val(promo).value) \div 100
         ELSE Val(promo).value * Scale

\* Variant of SubtotalOf with the operands of the subtraction swapped
SubtotalOf_Swapped(base, discount) == Max(0, discount - base)

SubtotalOf(base, discount) == Max(0, base - discount)

\* Variant of PlatformFeeAmountOf that does not look at passPlatformFeeToUser
PlatformFeeAmountOf_IgnorePass(ev, sub) ==
    IF ~IsSome(ev) \/ ~Val(ev).hasPlatformFee
    THEN 0
    ELSE IF Val(ev).platformFeeType = "percentage"
         THEN (sub * OrZero(Val(ev).platformFee)) \div 100
         ELSE OrZero(Val(ev).platformFee) * Scale

PlatformFeeAmountOf(ev, sub) ==
    IF ~IsSome(ev) \/ ~Val(ev).hasPlatformFee \/ ~Val(ev).passPlatformFeeToUser
    THEN 0
    ELSE IF Val(ev).platformFeeType = "percentage"
         THEN (sub * OrZero(Val(ev).platformFee)) \div 100
         ELSE OrZero(Val(ev).platformFee) * Scale

\* Computed on every render, not memoised
subtotal == SubtotalOf(baseAmount, discountAmount)
totalAmount == subtotal + platformFeeAmount

\* useMemo: the cell keeps its value unless a dependency changed
UseMemo(cell, depsBefore, depsNow, fresh) ==
    IF depsBefore = depsNow THEN cell ELSE fresh

\* The re-render that follows every state update of the pricing form;
\* the basic form has none of these cells.
Render ==
    IF variant = "pricing"
    THEN /\ activePricing' = UseMemo(activePricing,
                                     <<selectedPriceName, event>>,
                                     <<selectedPriceName', event'>>,
                                     ActivePricingOf(selectedPriceName', event'))
         /\ baseAmount' = UseMemo(baseAmount,
                                  <<activePricing, event>>,
                                  <<activePricing', event'>>,
                                  BaseAmountOf(activePricing', event'))
         /\ discountAmount' = UseMemo(discountAmount,
                                      <<appliedPromo, baseAmount>>,
                                      <<appliedPromo', baseAmount'>>,
                                      DiscountAmountOf(appliedPromo', baseAmount'))
         /\ platformFeeAmount' = UseMemo(platformFeeAmount,
                                         <<event, subtotal>>,
                                         <<event', subtotal'>>,
                                         PlatformFeeAmountOf(event', subtotal'))
    ELSE UNCHANGED pricingVars

----------------------------------------------------------------------------
\* What is on screen

\* The early returns before the <form> element
FormVisible ==
    /\ ~loading
    /\ IsSome(event)
    /\ (variant = "basic" => ~IsSome(error))

\* Variant of SubmitDisabled without the tier condition
SubmitDisabled_SubmittingOnly == submitting

\* The disabled attribute of the submit button
SubmitDisabled ==
    IF variant = "pricing"
    THEN submitting \/ (Val(event).hasSpecialPrices /\ ~IsSome(selectedPriceName)
                                                   /\ ~Val(event).isFree)
    ELSE submitting

\* A custom field is rendered as a control (select or input) the user can
\* fill in: the pricing form renders an `info` field as a text block, the
\* basic form renders an input for every type but dropdown
HasControl(field) == variant = "pricing" => field.type # "info"

\* The value of custom field `name` in a draft or payload: undefined reads
\* as empty
FieldValue(data, name) ==
    IF name \in DOMAIN data.customFields THEN data.customFields[name] ELSE ""

\* The tier list is rendered
TierListVisible ==
    /\ variant = "pricing"
    /\ Val(event).hasSpecialPrices
    /\ Len(Val(event).specialPrices) > 0

\* The promo input is rendered
PromoVisible == variant = "pricing" /\ ~Val(event).isFree

----------------------------------------------------------------------------
\* Initial state: the first render

\* Variant of EffectFetches that does not look at the event
EffectFetches_IgnoreEvent(ev, id) == id # ""

\* `if (!event && eventId)` of the effect that loads the event
EffectFetches(ev, id) == ~IsSome(ev) /\ id # ""

InitWith(variants, events, ids) ==
    /\ variant \in variants
    /\ serverEvent \in events
    /\ razorpay \in BOOLEAN
    /\ eventId \in ids
    /\ themeColor \in ThemeColors
    /\ initialEvent \in {None, Some(serverEvent)}
    /\ event = initialEvent
    /\ loading = ~IsSome(initialEvent)
    /\ getPending = IF EffectFetches(initialEvent, eventId) THEN 1 ELSE 0
    /\ getCalls = getPending
    /\ justApplied = FALSE
    /\ submitting = FALSE
    /\ error = None
    /\ promoCode = ""
    /\ appliedPromo = None
    /\ selectedPriceName = None
    /\ formData = [name |-> "", teamMembers |-> <<>>, customFields |-> NoFields]
    /\ pending = <<>>
    /\ activePricing = None
    /\ baseAmount = IF variant = "pricing" THEN BaseAmountOf(None, event) ELSE 0
    /\ discountAmount = 0
    /\ platformFeeAmount =
          IF variant = "pricing"
          THEN PlatformFeeAmountOf(event, SubtotalOf(BaseAmountOf(None, event), 0))
          ELSE 0
    /\ subs = <<>>
    /\ onSuccessLog = <<>>
    /\ onErrorLog = <<>>

----------------------------------------------------------------------------
\* Event load (useEffect)

LoadEventOk ==
    /\ getPending > 0
    /\ getPending' = getPending - 1
    /\ event' = Some(serverEvent)
    /\ loading' = FALSE
    /\ justApplied' = FALSE
    /\ UNCHANGED <<clientVars, teamVars>>
    /\ UNCHANGED <<eventId, getCalls, initialEvent, themeColor>>
    /\ UNCHANGED <<variant, serverEvent, razorpay, submitting, error, promoCode,
                   appliedPromo, selectedPriceName, formData, subs,
                   onSuccessLog, onErrorLog>>
    /\ Render

LoadEventFail ==
    /\ getPending > 0
    /\ getPending' = getPending - 1
    /\ \E m \in ApiMessages \cup {""} :
          LET msg == IF m = "" THEN LoadFailed ELSE m
          IN  /\ error' = Some(msg)
              /\ onErrorLog' = Append(onErrorLog, [sub |-> 0, msg |-> msg])
    /\ loading' = FALSE
    /\ justApplied' = FALSE
    /\ UNCHANGED <<clientVars, teamVars>>
    /\ UNCHANGED <<eventId, getCalls, initialEvent, themeColor>>
    /\ UNCHANGED <<variant, serverEvent, razorpay, event, submitting, promoCode,
                   appliedPromo, selectedPriceName, formData, subs, onSuccessLog>>
    /\ Render

\* The parent re-renders the form with a new client object: a dependency of
\* the effect changed, so the effect runs again
PropsChanged ==
    /\ EffectFetches(event, eventId)
    /\ getCalls < MaxGets
    /\ getPending' = getPending + 1
    /\ getCalls' = getCalls + 1
    /\ justApplied' = FALSE
    /\ UNCHANGED <<clientVars, teamVars>>
    /\ UNCHANGED <<variant, serverEvent, razorpay, event, loading, submitting,
                   error, promoCode, appliedPromo, selectedPriceName, formData,
                   eventId, initialEvent, themeColor, subs, onSuccessLog,
                   onErrorLog>>
    /\ Render

----------------------------------------------------------------------------
\* Editing the draft

\* onChange of the name input
EditName ==
    /\ FormVisible
    /\ \E v \in Names :
          /\ v # formData.name
          /\ formData' = [formData EXCEPT !.name = v]
    /\ justApplied' = FALSE
    /\ UNCHANGED <<clientVars, teamVars>>
    /\ UNCHANGED <<eventId, getCalls, initialEvent, themeColor>>
    /\ UNCHANGED <<variant, serverEvent, razorpay, event, loading, submitting,
                   error, promoCode, appliedPromo, selectedPriceName,
                   getPending, subs, onSuccessLog, onErrorLog>>
    /\ Render

\* onClick of a tier row
SelectTier ==
    /\ FormVisible
    /\ TierListVisible
    /\ \E i \in 1..Len(Val(event).specialPrices) :
          selectedPriceName' = Some(Val(event).specialPrices[i].name)
    /\ justApplied' = FALSE
    /\ UNCHANGED <<clientVars, teamVars>>
    /\ UNCHANGED <<eventId, getCalls, initialEvent, themeColor>>
    /\ UNCHANGED <<variant, serverEvent, razorpay, event, loading, submitting,
                   error, promoCode, appliedPromo, formData,
                   getPending, subs, onSuccessLog, onErrorLog>>
    /\ Render

\* onChange of the control of a custom field
EditCustomField ==
    /\ FormVisible
    /\ \E k \in 1..Len(Val(event).customFields), v \in FieldValues :
          LET field == Val(event).customFields[k]
          IN  /\ HasControl(field)
              /\ v # FieldValue(formData, field.name)
              /\ formData' = [formData EXCEPT
                                !.customFields = Spread(@, field.name :> v)]
    /\ justApplied' = FALSE
    /\ UNCHANGED <<clientVars, teamVars>>
    /\ UNCHANGED <<eventId, getCalls, initialEvent, themeColor>>
    /\ UNCHANGED <<variant, serverEvent, razorpay, event, loading, submitting,
                   error, promoCode, appliedPromo, selectedPriceName,
                   getPending, subs, onSuccessLog, onErrorLog>>
    /\ Render

\* onChange of the promo input
SetPromoCode ==
    /\ FormVisible
    /\ PromoVisible
    /\ \E t \in TypedTexts(Val(event)) :
          /\ ToUpperCase(t) # promoCode
          /\ promoCode' = ToUpperCase(t)
    /\ justApplied' = FALSE
    /\ UNCHANGED <<clientVars, teamVars>>
    /\ UNCHANGED <<eventId, getCalls, initialEvent, themeColor>>
    /\ UNCHANGED <<variant, serverEvent, razorpay, event, loading, submitting,
                   error, appliedPromo, selectedPriceName, formData,
                   getPending, subs, onSuccessLog, onErrorLog>>
    /\ Render

\* Variant of MatchingPromo that does not test isActive
MatchingPromo_IgnoreActive(ev, text) ==
    LET codes == ev.promoCodes
    IN  FirstAt(codes, {k \in 1..Len(codes) :
                          ToUpperCase(codes[k].code) = ToUpperCase(text)})

\* Variant of MatchingPromo that accepts whatever was typed as a code
MatchingPromo_AnyCode(ev, text) ==
    Some([code |-> text, type |-> "flat", value |-> 0, isActive |-> TRUE])

\* The promo entry handleApplyPromo looks up
MatchingPromo(ev, text) ==
    LET codes == ev.promoCodes
    IN  FirstAt(codes, {k \in 1..Len(codes) :
                          ToUpperCase(codes[k].code) = ToUpperCase(text) /\ codes[k].isActive})

\* Variant of PromoAfterMismatch that keeps the promo applied before
PromoAfterMismatch_Keep(prev) == prev

\* setAppliedPromo(null) in the else branch of handleApplyPromo
PromoAfterMismatch(prev) == None

handleApplyPromo ==
    /\ FormVisible
    /\ PromoVisible
    /\ IF ~IsSome(event) \/ promoCode = ""
       THEN UNCHANGED <<appliedPromo, error>>
       ELSE LET code == MatchingPromo(Val(event), promoCode)
            IN  IF IsSome(code)
                THEN /\ appliedPromo' = code
                     /\ error' = None
                ELSE /\ error' = Some(InvalidPromo)
                     /\ appliedPromo' = PromoAfterMismatch(appliedPromo)
    /\ justApplied' = TRUE
    /\ UNCHANGED <<clientVars, teamVars>>
    /\ UNCHANGED <<eventId, getCalls, initialEvent, themeColor>>
    /\ UNCHANGED <<variant, serverEvent, razorpay, event, loading, submitting,
                   promoCode, selectedPriceName, formData,
                   getPending, subs, onSuccessLog, onErrorLog>>
    /\ Render

----------------------------------------------------------------------------
\* Submission (handleSubmit)

\* The browser's check of the `required` controls before the submit event:
\* the contact inputs, and the control of every required custom field
RequiredFilled ==
    /\ formData.name # ""
    /\ \A k \in 1..Len(Val(event).customFields) :
          LET field == Val(event).customFields[k]
          IN  (HasControl(field) /\ field.required) =>
                  FieldValue(formData, field.name) # ""

\* The payload `data` built at the start of handleSubmit
BuildData ==
    IF variant = "pricing"
    THEN [ name |-> formData.name,
           teamMembers |-> formData.teamMembers,
           customFields |-> formData.customFields,
           specialPrice |-> selectedPriceName,
           promoCode |-> IF IsSome(appliedPromo) THEN Some(Val(appliedPromo).code) ELSE None,
           source |-> Some("api-sdk") ]
    ELSE [ name |-> formData.name,
           teamMembers |-> formData.teamMembers,
           customFields |-> formData.customFields,
           specialPrice |-> None,
           promoCode |-> None,
           source |-> None ]

\* Phases of one handleSubmit invocation
\*   registering: first events.register call in flight
\*   checkout:    widget constructed and opened, handler not yet called
\*   confirming:  second events.register call in flight
\*   completed / failed / dismissed: nothing in flight any more
InFlightPhases == {"registering", "checkout", "confirming"}

\* Variant of ReportsSuccessAtOnce with the else missing
ReportsSuccessAtOnce_Always(result) == TRUE

\* The else branch of `if (result.orderId)`: success is reported at once
ReportsSuccessAtOnce(result) == ~IsSome(result.orderId)

\* Variant of NeedsCheckout that takes the checkout path for every result
NeedsCheckout_Always(result) == TRUE

\* `if (result.orderId)`: the checkout path is taken
NeedsCheckout(result) == IsSome(result.orderId)

\* Variant of SubmittingAfterFinally without the reset
SubmittingAfterFinally_Stuck == TRUE

\* The finally block of handleSubmit
SubmittingAfterFinally == FALSE

\* The user submits the form
handleSubmit ==
    /\ FormVisible
    /\ ~SubmitDisabled
    /\ RequiredFilled
    /\ Len(subs) < MaxSubmissions
    /\ submitting' = TRUE
    /\ error' = None
    /\ subs' = Append(subs, [ data |-> BuildData,
                              phase |-> "registering",
                              cause |-> "",
                              registerCalls |-> 1,
                              result |-> None,
                              widgetOpens |-> 0,
                              handlerCalls |-> 0,
                              failure |-> None,
                              options |-> None,
                              response |-> None,
                              confirmData |-> None ])
    /\ justApplied' = FALSE
    /\ UNCHANGED <<clientVars, teamVars>>
    /\ UNCHANGED <<eventId, getCalls, initialEvent, themeColor>>
    /\ UNCHANGED <<variant, serverEvent, razorpay, event, loading, promoCode,
                   appliedPromo, selectedPriceName, formData, getPending,
                   onSuccessLog, onErrorLog>>
    /\ Render

\* The result the server sends for the first register call of submission
\* i: a registration id and, when payment is due, the order to pay: its
\* id, the checkout key, and the amount and currency the server computed
RegisterResult(i, withOrder) ==
    [ registrationId |-> i,
      orderId |-> IF withOrder THEN Some(i) ELSE None,
      key |-> IF withOrder THEN Some("rzp_key") ELSE None,
      amount |-> IF withOrder THEN Some(77700 + i) ELSE None,
      currency |-> IF withOrder THEN Some("INR") ELSE None ]

\* Variant of WidgetMissing that looks for the widget whatever the result
WidgetMissing_AnyResult(result) == ~razorpay

\* `if (result.orderId) { if (!window.Razorpay) throw ... }`
WidgetMissing(result) == NeedsCheckout(result) /\ ~razorpay

\* Variant of WidgetOptions that charges the total computed by the form
WidgetOptions_ClientTotal(result, data) ==
    [ key |-> result.key,
      amount |-> Some(totalAmount),
      currency |-> result.currency,
      order_id |-> result.orderId,
      prefill |-> [name |-> data.name],
      theme |-> [color |-> themeColor] ]

\* The options object the checkout widget is constructed with
WidgetOptions(result, data) ==
    [ key |-> result.key,
      amount |-> result.amount,
      currency |-> result.currency,
      order_id |-> result.orderId,
      prefill |-> [name |-> data.name],
      theme |-> [color |-> themeColor] ]

\* The first register call resolves; the rest of the try block and the
\* finally block run
RegisterResolve(i) ==
    /\ subs[i].phase = "registering"
    /\ \E withOrder \in BOOLEAN :
          LET result == RegisterResult(i, withOrder)
              throws == WidgetMissing(result)
              opens == NeedsCheckout(result) /\ ~throws
              reports == ReportsSuccessAtOnce(result) /\ ~throws
          IN  /\ subs' = [subs EXCEPT
                            ![i].result = Some(result),
                            ![i].phase = IF throws THEN "failed"
                                         ELSE IF opens THEN "checkout"
                                         ELSE "completed",
                            ![i].cause = IF throws THEN "config" ELSE "",
                            ![i].failure = IF throws THEN Some(RazorpayMissing) ELSE None,
                            ![i].widgetOpens = IF opens THEN @ + 1 ELSE @,
                            ![i].options =
                                IF opens
                                THEN Some(WidgetOptions(result, subs[i].data))
                                ELSE @]
              /\ onSuccessLog' = IF reports
                                 THEN Append(onSuccessLog,
                                             [sub |-> i, id |-> result.registrationId])
                                 ELSE onSuccessLog
              /\ IF throws
                 THEN /\ error' = Some(RazorpayMissing)
                      /\ onErrorLog' = Append(onErrorLog,
                                              [sub |-> i, msg |-> RazorpayMissing])
                 ELSE UNCHANGED <<error, onErrorLog>>
    /\ submitting' = SubmittingAfterFinally
    /\ justApplied' = FALSE
    /\ UNCHANGED <<clientVars, teamVars>>
    /\ UNCHANGED <<eventId, getCalls, initialEvent, themeColor>>
    /\ UNCHANGED <<variant, serverEvent, razorpay, event, loading, promoCode,
                   appliedPromo, selectedPriceName, formData, getPending>>
    /\ Render

\* The first register call rejects (API error or network failure)
RegisterReject(i) ==
    /\ subs[i].phase = "registering"
    /\ \E m \in ApiMessages :
          /\ subs' = [subs EXCEPT ![i].phase = "failed",
                                  ![i].cause = "register",
                                  ![i].failure = Some(m)]
          /\ error' = Some(m)
          /\ onErrorLog' = Append(onErrorLog, [sub |-> i, msg |-> m])
    /\ submitting' = SubmittingAfterFinally
    /\ justApplied' = FALSE
    /\ UNCHANGED <<clientVars, teamVars>>
    /\ UNCHANGED <<eventId, getCalls, initialEvent, themeColor>>
    /\ UNCHANGED <<variant, serverEvent, razorpay, event, loading, promoCode,
                   appliedPromo, selectedPriceName, formData, getPending,
                   onSuccessLog>>
    /\ Render

\* Variant of ConfirmBase that rebuilds the payload from the current draft
ConfirmBase_CurrentDraft(i) == BuildData

\* `...data` in the handler: the payload captured by the closure
ConfirmBase(i) == subs[i].data

\* The response object the widget passes to options.handler for submission i
WidgetResponse(i) ==
    [ razorpay_payment_id |-> <<"pay", i>>,
      razorpay_order_id |-> Val(Val(subs[i].result).orderId) ]

\* The payload of the confirmation call
ConfirmData(i, response) ==
    LET base == ConfirmBase(i)
    IN  [ name |-> base.name,
          teamMembers |-> base.teamMembers,
          customFields |-> base.customFields,
          specialPrice |-> base.specialPrice,
          promoCode |-> base.promoCode,
          source |-> base.source,
          paymentId |-> response.razorpay_payment_id,
          orderId |-> response.razorpay_order_id,
          registrationId |-> Val(subs[i].result).registrationId ]

\* The widget calls options.handler, once per opened widget as its contract
\* says: the confirmation call is issued
CheckoutHandler(i) ==
    /\ subs[i].phase = "checkout"
    /\ subs' = [subs EXCEPT ![i].phase = "confirming",
                            ![i].handlerCalls = @ + 1,
                            ![i].registerCalls = @ + 1,
                            ![i].response = Some(WidgetResponse(i)),
                            ![i].confirmData = Some(ConfirmData(i, WidgetResponse(i)))]
    /\ justApplied' = FALSE
    /\ UNCHANGED <<clientVars, teamVars>>
    /\ UNCHANGED <<eventId, getCalls, initialEvent, themeColor>>
    /\ UNCHANGED <<variant, serverEvent, razorpay, event, loading, submitting,
                   error, promoCode, appliedPromo, selectedPriceName, formData,
                   getPending, onSuccessLog, onErrorLog>>
    /\ UNCHANGED pricingVars

\* The user closes the widget without paying: the handler is never called
CheckoutDismiss(i) ==
    /\ subs[i].phase = "checkout"
    /\ subs' = [subs EXCEPT ![i].phase = "dismissed"]
    /\ justApplied' = FALSE
    /\ UNCHANGED <<clientVars, teamVars>>
    /\ UNCHANGED <<eventId, getCalls, initialEvent, themeColor>>
    /\ UNCHANGED <<variant, serverEvent, razorpay, event, loading, submitting,
                   error, promoCode, appliedPromo, selectedPriceName, formData,
                   getPending, onSuccessLog, onErrorLog>>
    /\ UNCHANGED pricingVars

\* The confirmation call resolves
ConfirmResolve(i) ==
    /\ subs[i].phase = "confirming"
    /\ subs' = [subs EXCEPT ![i].phase = "completed"]
    /\ onSuccessLog' = Append(onSuccessLog,
                              [sub |-> i, id |-> Val(subs[i].result).registrationId])
    /\ justApplied' = FALSE
    /\ UNCHANGED <<clientVars, teamVars>>
    /\ UNCHANGED <<eventId, getCalls, initialEvent, themeColor>>
    /\ UNCHANGED <<variant, serverEvent, razorpay, event, loading, submitting,
                   error, promoCode, appliedPromo, selectedPriceName, formData,
                   getPending, onErrorLog>>
    /\ UNCHANGED pricingVars

\* The confirmation call rejects
ConfirmReject(i) ==
    /\ subs[i].phase = "confirming"
    /\ \E m \in ApiMessages :
          /\ subs' = [subs EXCEPT ![i].phase = "failed",
                                  ![i].cause = "confirm",
                                  ![i].failure = Some(m)]
          /\ error' = Some(m)
          /\ onErrorLog' = Append(onErrorLog, [sub |-> i, msg |-> m])
    /\ justApplied' = FALSE
    /\ UNCHANGED <<clientVars, teamVars>>
    /\ UNCHANGED <<eventId, getCalls, initialEvent, themeColor>>
    /\ UNCHANGED <<variant, serverEvent, razorpay, event, loading, submitting,
                   promoCode, appliedPromo, selectedPriceName, formData,
                   getPending, onSuccessLog>>
    /\ Render

\* The host page finishes loading the checkout script
ScriptLoaded ==
    /\ ~razorpay
    /\ razorpay' = TRUE
    /\ justApplied' = FALSE
    /\ UNCHANGED <<clientVars, teamVars>>
    /\ UNCHANGED <<eventId, getCalls, initialEvent, themeColor>>
    /\ UNCHANGED <<variant, serverEvent, event, loading, submitting,
                   error, promoCode, appliedPromo, selectedPriceName, formData,
                   getPending, subs, onSuccessLog, onErrorLog>>
    /\ UNCHANGED pricingVars

----------------------------------------------------------------------------
\* Team roster
\*
\* Rows are counted from 1 here, from 0 in the source.  A handler calls
\* setFormData with an updater; React runs the queued updaters, in order,
\* at the next render.  Handlers dispatched before that render (two events
\* dispatched by a script in one task) all close over the rendered draft.

\* The roster row list is on screen
RosterVisible ==
    /\ FormVisible
    /\ variant = "pricing"
    /\ Val(event).isTeamEvent

\* Variant of RemoveAt that drops the last row whatever the index
RemoveAt_Last(members, index) ==
    [j \in 1..(Len(members) - 1) |-> members[j]]

\* members.splice(index, 1) on a copy of the roster
RemoveAt(members, index) ==
    IF index > Len(members) THEN members
    ELSE [j \in 1..(Len(members) - 1) |->
             IF j < index THEN members[j] ELSE members[j + 1]]

\* members[index] = { ...members[index], [field]: value } on a copy of the
\* roster; an index past the end leaves holes (empty objects here) before it
UpdateAt(members, index, field, value) ==
    [j \in 1..Max(Len(members), index) |->
        IF j = index
        THEN Spread(IF j <= Len(members) THEN members[j] ELSE NoFields,
                    field :> value)
        ELSE IF j <= Len(members) THEN members[j] ELSE NoFields]

\* The roster after React has run the queued updaters on `current`: the
\* updater of update and remove replaces the roster by the one the handler
\* computed, the updater of add appends a blank member to what it is given
QueuedRoster(current, queue) ==
    LET sets == {k \in 1..Len(queue) : queue[k].kind # "add"}
        last == IF sets = {} THEN 0
                ELSE CHOOSE k \in sets : \A j \in sets : j <= k
        base == IF last = 0 THEN current ELSE queue[last].members
        adds == Cardinality({k \in (last + 1)..Len(queue) : queue[k].kind = "add"})
    IN  base \o [j \in 1..adds |-> BlankMember]

handleAddTeamMember ==
    /\ RosterVisible
    /\ Len(pending) < MaxPending
    /\ Len(QueuedRoster(formData.teamMembers, pending)) < MaxMembers
    /\ pending' = Append(pending, [ kind |-> "add", index |-> 0, field |-> "",
                                    value |-> "", members |-> <<>> ])
    /\ justApplied' = FALSE
    /\ UNCHANGED formData
    /\ UNCHANGED clientVars
    /\ UNCHANGED <<eventId, getCalls, initialEvent, themeColor>>
    /\ UNCHANGED <<variant, serverEvent, razorpay, event, loading, submitting,
                   error, promoCode, appliedPromo, selectedPriceName,
                   getPending, subs, onSuccessLog, onErrorLog>>
    /\ UNCHANGED pricingVars

handleUpdateTeamMember ==
    /\ RosterVisible
    /\ Len(pending) < MaxPending
    /\ \E index \in 1..Len(formData.teamMembers), field \in MemberFields,
          value \in MemberTexts :
          /\ formData.teamMembers[index][field] # value
          /\ pending' = Append(pending,
                 [ kind |-> "update", index |-> index, field |-> field,
                   value |-> value,
                   members |-> UpdateAt(formData.teamMembers, index, field, value) ])
    /\ justApplied' = FALSE
    /\ UNCHANGED formData
    /\ UNCHANGED clientVars
    /\ UNCHANGED <<eventId, getCalls, initialEvent, themeColor>>
    /\ UNCHANGED <<variant, serverEvent, razorpay, event, loading, submitting,
                   error, promoCode, appliedPromo, selectedPriceName,
                   getPending, subs, onSuccessLog, onErrorLog>>
    /\ UNCHANGED pricingVars

handleRemoveTeamMember ==
    /\ RosterVisible
    /\ Len(pending) < MaxPending
    /\ \E index \in 1..Len(formData.teamMembers) :
          /\ pending' = Append(pending,
                 [ kind |-> "remove", index |-> index, field |-> "",
                   value |-> "",
                   members |-> RemoveAt(formData.teamMembers, index) ])
    /\ justApplied' = FALSE
    /\ UNCHANGED formData
    /\ UNCHANGED clientVars
    /\ UNCHANGED <<eventId, getCalls, initialEvent, themeColor>>
    /\ UNCHANGED <<variant, serverEvent, razorpay, event, loading, submitting,
                   error, promoCode, appliedPromo, selectedPriceName,
                   getPending, subs, onSuccessLog, onErrorLog>>
    /\ UNCHANGED pricingVars

\* React renders the form again: the queued updaters run
RenderRoster ==
    /\ pending # <<>>
    /\ formData' = [formData EXCEPT
                      !.teamMembers = QueuedRoster(@, pending)]
    /\ pending' = <<>>
    /\ justApplied' = FALSE
    /\ UNCHANGED clientVars
    /\ UNCHANGED <<eventId, getCalls, initialEvent, themeColor>>
    /\ UNCHANGED <<variant, serverEvent, razorpay, event, loading, submitting,
                   error, promoCode, appliedPromo, selectedPriceName,
                   getPending, subs, onSuccessLog, onErrorLog>>
    /\ UNCHANGED pricingVars

----------------------------------------------------------------------------
\* The API client (VihayaClient)

ClientVersions == {"current", "earlier"}

ApiKeys == {"k1", "k2"}

\* A header object is a function from header names to values
NoHeaders == << >>

\* The `headers` a caller may configure the client with
ExtraHeaderSets ==
    { NoHeaders,
      ("X-Trace" :> "t1") @@ ("Content-Type" :> "text/plain"),
      ("x-api-key" :> "other") }

Operations == {"events.list", "events.get", "events.register", "payments.verify"}

\* The RequestInit each operation hands to request
Method(op) ==
    IF op \in {"events.register", "payments.verify"} THEN "POST" ELSE "GET"

OptionsHeaders(op) == NoHeaders

DefaultHeaders ==
    ("x-api-key" :> apiKey) @@ ("Content-Type" :> "application/json")

RequestHeaders(op) ==
    Spread(Spread(DefaultHeaders, extraHeaders), OptionsHeaders(op))

\* Response bodies: a JSON object with or without an `error` field, or text
\* that is not JSON (a gateway's HTML error page)
JsonBody(err) == [json |-> TRUE, error |-> err]

HtmlBody == [json |-> FALSE, error |-> None]

Responses ==
    { [status |-> 200, body |-> JsonBody(None)],
      [status |-> 400, body |-> JsonBody(Some("Invalid email"))],
      [status |-> 500, body |-> JsonBody(None)],
      [status |-> 502, body |-> HtmlBody] }

\* Response.ok
Ok(resp) == resp.status \in 200..299

GenericApiError == "Vihaya API Error"

JsonParseError == "Unexpected token < in JSON at position 0"

\* What the promise of request settles with once the response is there:
\* response.json() is awaited first, the status is looked at afterwards
Outcome(version, resp) ==
    IF ~resp.body.json
    THEN [kind |-> "SyntaxError", message |-> JsonParseError,
          status |-> None, body |-> None]
    ELSE IF ~Ok(resp)
    THEN LET msg == IF IsSome(resp.body.error) /\ Val(resp.body.error) # ""
                    THEN Val(resp.body.error)
                    ELSE GenericApiError
         IN  IF version = "current"
             THEN [kind |-> "VihayaError", message |-> msg,
                   status |-> Some(resp.status), body |-> Some(resp.body)]
             ELSE [kind |-> "Error", message |-> msg,
                   status |-> None, body |-> None]
    ELSE [kind |-> "resolved", message |-> "",
          status |-> None, body |-> Some(resp.body)]

ClientInitWith(versions, keys, extras) ==
    /\ clientVersion \in versions
    /\ apiKey \in keys
    /\ extraHeaders \in extras
    /\ calls = <<>>
    /\ overlays = <<>>

\* An operation of the client calls request: fetch is issued
request(op) ==
    /\ Len(calls) < MaxCalls
    /\ calls' = Append(calls, [ op |-> op,
                                method |-> Method(op),
                                headers |-> RequestHeaders(op),
                                response |-> None,
                                outcome |-> None ])
    /\ UNCHANGED <<clientVersion, apiKey, extraHeaders, overlays>>
    /\ UNCHANGED formVars

\* The response of a request arrives and the promise settles
ResponseArrives(i) ==
    /\ ~IsSome(calls[i].response)
    /\ \E resp \in Responses :
          calls' = [calls EXCEPT ![i].response = Some(resp),
                                 ![i].outcome =
                                     Some(Outcome(clientVersion, resp))]
    /\ UNCHANGED <<clientVersion, apiKey, extraHeaders, overlays>>
    /\ UNCHANGED formVars

----------------------------------------------------------------------------
\* The registration overlay (VihayaClient.ui.showRegistration)

\* The client's base URL and the origin of another site
BaseUrl == "https://events.vihaya.app"

Origins == {BaseUrl, "https://other.example"}

MessageTypes == {"VIHAYA_REGISTRATION_SUCCESS", "OTHER"}

\* One run of the closure `remove`: removeChild(iframe) throws when the
\* iframe is no longer a child of the body, and the close button is then
\* not looked at; otherwise both elements are detached
RunRemove(o) ==
    [o EXCEPT !.removeRuns = @ + 1,
              !.detachedRuns = IF o.iframe /\ o.closeBtn THEN @ ELSE @ + 1,
              !.iframe = FALSE,
              !.closeBtn = IF o.iframe THEN FALSE ELSE @]

\* The message listener of one overlay: a success message from the base
\* URL's origin schedules `remove` after 2 s
OnMessage(o, origin, type) ==
    IF origin # BaseUrl THEN [o EXCEPT !.heard = @ + 1]
    ELSE IF type = "VIHAYA_REGISTRATION_SUCCESS"
         THEN [o EXCEPT !.heard = @ + 1,
                        !.timers = @ + 1,
                        !.scheduledBy = @ \cup {origin}]
         ELSE [o EXCEPT !.heard = @ + 1]

\* ui.showRegistration(eventId): iframe and close button are created, the
\* listener is added to the window, both elements are attached
showRegistration ==
    /\ Len(overlays) < MaxOverlays
    /\ overlays' = Append(overlays, [ iframe |-> TRUE,
                                      closeBtn |-> TRUE,
                                      heard |-> 0,
                                      timers |-> 0,
                                      scheduledBy |-> {},
                                      removeRuns |-> 0,
                                      detachedRuns |-> 0 ])
    /\ UNCHANGED <<clientVersion, apiKey, extraHeaders, calls>>
    /\ UNCHANGED formVars

\* The user clicks the close button of an overlay: closeBtn.onclick
ClickClose(i) ==
    /\ overlays[i].closeBtn
    /\ overlays' = [overlays EXCEPT ![i] = RunRemove(@)]
    /\ UNCHANGED <<clientVersion, apiKey, extraHeaders, calls>>
    /\ UNCHANGED formVars

\* A message event reaches the window: the listener of every overlay
\* opened so far runs (no listener is ever removed)
WindowMessage ==
    /\ overlays # <<>>
    /\ \A i \in 1..Len(overlays) : overlays[i].heard < MaxMessages
    /\ \E origin \in Origins, type \in MessageTypes :
          overlays' = [i \in 1..Len(overlays) |->
                          OnMessage(overlays[i], origin, type)]
    /\ UNCHANGED <<clientVersion, apiKey, extraHeaders, calls>>
    /\ UNCHANGED formVars

\* A timer set by the listener of overlay i expires: `remove` runs
TimerFires(i) ==
    /\ overlays[i].timers > 0
    /\ overlays' = [overlays EXCEPT ![i] = RunRemove([@ EXCEPT !.timers = @ - 1])]
    /\ UNCHANGED <<clientVersion, apiKey, extraHeaders, calls>>
    /\ UNCHANGED formVars

----------------------------------------------------------------------------
\* Specification

Next ==
    \/ LoadEventOk
    \/ LoadEventFail
    \/ EditName
    \/ SelectTier
    \/ SetPromoCode
    \/ handleApplyPromo
    \/ handleSubmit
    \/ \E i \in 1..Len(subs) : RegisterResolve(i)
    \/ \E i \in 1..Len(subs) : RegisterReject(i)
    \/ \E i \in 1..Len(subs) : CheckoutHandler(i)
    \/ \E i \in 1..Len(subs) : CheckoutDismiss(i)
    \/ \E i \in 1..Len(subs) : ConfirmResolve(i)
    \/ \E i \in 1..Len(subs) : ConfirmReject(i)
    \/ ScriptLoaded

\* In the specifications of the form the client is fixed and idle
IdleClient == ClientInitWith({"current"}, {"k1"}, {NoHeaders})

\* The caller leaves the themeColor prop at its default
DefaultTheme == themeColor = "#0CF2A0"

Init == InitWith(Variants, ProtocolEvents, {"evt_1"}) /\ DefaultTheme /\ IdleClient

Spec == Init /\ [][Next]_vars

\* The pricing form over every event shape, without submissions
PricingInit ==
    InitWith({"pricing"}, Events, {"evt_1"}) /\ DefaultTheme /\ IdleClient

PricingNext ==
    \/ LoadEventOk
    \/ LoadEventFail
    \/ SelectTier
    \/ SetPromoCode
    \/ handleApplyPromo

SpecPricing == PricingInit /\ [][PricingNext]_vars

\* The event load of a form whose parent may re-render it with a new client
\* object, up to the first edit of the draft
LoadInit ==
    InitWith(Variants, ProtocolEvents, EventIds) /\ DefaultTheme /\ IdleClient

LoadNext ==
    \/ LoadEventOk
    \/ LoadEventFail
    \/ PropsChanged
    \/ EditName

SpecLoad == LoadInit /\ [][LoadNext]_vars

\* The client on its own: every configuration, both versions of request
ClientInit ==
    /\ InitWith({"basic"}, {MkEvent(TRUE, None, FALSE, <<>>, <<>>, NoFee)},
                {"evt_1"})
    /\ ClientInitWith(ClientVersions, ApiKeys, ExtraHeaderSets)

ClientNext ==
    \/ \E op \in Operations : request(op)
    \/ \E i \in 1..Len(calls) : ResponseArrives(i)

SpecClient == ClientInit /\ [][ClientNext]_vars

\* The overlays of one page
OverlayInit ==
    /\ InitWith({"basic"}, {MkEvent(TRUE, None, FALSE, <<>>, <<>>, NoFee)},
                {"evt_1"})
    /\ IdleClient

OverlayNext ==
    \/ showRegistration
    \/ \E i \in 1..Len(overlays) : ClickClose(i)
    \/ WindowMessage
    \/ \E i \in 1..Len(overlays) : TimerFires(i)

SpecOverlay == OverlayInit /\ [][OverlayNext]_vars

\* The pricing form of a team event given by the caller: the roster and
\* the name input
TeamInit ==
    /\ InitWith({"pricing"}, {TeamEvent}, {"evt_1"})
    /\ IsSome(initialEvent)
    /\ razorpay
    /\ DefaultTheme
    /\ IdleClient

TeamNext ==
    \/ EditName
    \/ handleAddTeamMember
    \/ handleUpdateTeamMember
    \/ handleRemoveTeamMember
    \/ RenderRoster

SpecTeam == TeamInit /\ [][TeamNext]_vars

\* Forms of events with custom fields, up to the result of the first
\* register call
FieldsInit ==
    InitWith(Variants, FieldEvents, {"evt_1"}) /\ DefaultTheme /\ IdleClient

FieldsNext ==
    \/ LoadEventOk
    \/ LoadEventFail
    \/ EditName
    \/ EditCustomField
    \/ handleSubmit
    \/ \E i \in 1..Len(subs) : RegisterResolve(i)
    \/ \E i \in 1..Len(subs) : RegisterReject(i)

SpecFields == FieldsInit /\ [][FieldsNext]_vars

\* Submissions for a paid event under every themeColor
CheckoutInit ==
    /\ InitWith(Variants, {MkEvent(FALSE, Some(1000), TRUE, <<Tiers[1]>>, <<>>, NoFee)},
                {"evt_1"})
    /\ IdleClient

SpecCheckout == CheckoutInit /\ [][Next]_vars

\* The whole life of a form whose parent may re-render it with a new
\* client object while the event is being loaded
OrderEvents ==
    { MkEvent(TRUE, None, FALSE, <<>>, <<>>, NoFee),
      MkEvent(FALSE, Some(1000), TRUE, <<Tiers[1]>>, <<>>, NoFee) }

OrderInit ==
    InitWith(Variants, OrderEvents, EventIds) /\ DefaultTheme /\ IdleClient

OrderNext ==
    \/ Next
    \/ PropsChanged

SpecOrder == OrderInit /\ [][OrderNext]_vars

----------------------------------------------------------------------------
\* Properties

SubIds == 1..Len(subs)

\* Number of onSuccess calls made for submission i
SuccessCalls(i) ==
    Cardinality({k \in 1..Len(onSuccessLog) : onSuccessLog[k].sub = i})

\* onError was called for submission i with message m
ErrorReported(i, m) ==
    \E k \in 1..Len(onErrorLog) : onErrorLog[k] = [sub |-> i, msg |-> m]

HasOrder(i) == IsSome(subs[i].result) /\ IsSome(Val(subs[i].result).orderId)
NoOrder(i) == IsSome(subs[i].result) /\ ~IsSome(Val(subs[i].result).orderId)

\* C1: while a submission is in flight (first call pending, checkout widget
\* open, or confirmation pending) the submit control is disabled and no
\* other submission is in flight.
C1_OneSubmissionInFlight ==
    \A i \in SubIds :
        subs[i].phase \in InFlightPhases =>
            /\ FormVisible => SubmitDisabled
            /\ \A j \in SubIds \ {i} : subs[j].phase \notin InFlightPhases

\* C2: over the life of one form instance onSuccess fires at most once.
C2_OnSuccessAtMostOnce == Len(onSuccessLog) <= 1

\* C3: for a submission whose first register call returned an orderId,
\* onSuccess fires only after the widget called the handler and the
\* confirmation call resolved; if the confirmation call failed, onError got
\* its message, onSuccess was not called and exactly the two register calls
\* were made.
C3_SuccessOnlyAfterConfirmation ==
    \A i \in SubIds :
        HasOrder(i) =>
            /\ SuccessCalls(i) > 0 =>
                  /\ subs[i].phase = "completed"
                  /\ subs[i].handlerCalls = 1
                  /\ subs[i].registerCalls = 2
                  /\ SuccessCalls(i) = 1
            /\ subs[i].cause = "confirm" =>
                  /\ SuccessCalls(i) = 0
                  /\ subs[i].registerCalls = 2
                  /\ ErrorReported(i, Val(subs[i].failure))

\* C3 witness: one paid submission completed through the confirmation call
\* and another one failed at its confirmation call.
C3_Witness ==
    \E i, j \in SubIds :
        /\ HasOrder(i) /\ subs[i].phase = "completed" /\ SuccessCalls(i) = 1
        /\ HasOrder(j) /\ subs[j].cause = "confirm" /\ SuccessCalls(j) = 0

\* C4: for a submission whose register call returned no orderId, one
\* register call was made, the widget was never opened and onSuccess was
\* called with the returned registrationId when the call resolved.
C4_NoOrderCompletesAtOnce ==
    \A i \in SubIds :
        NoOrder(i) =>
            /\ subs[i].registerCalls = 1
            /\ subs[i].widgetOpens = 0
            /\ subs[i].phase = "completed"
            /\ SuccessCalls(i) = 1
            /\ \E k \in 1..Len(onSuccessLog) :
                  onSuccessLog[k] = [sub |-> i, id |-> Val(subs[i].result).registrationId]

\* C4 witness: a submission resolved without an orderId.
C4_Witness ==
    \E i \in SubIds : NoOrder(i) /\ SuccessCalls(i) = 1 /\ subs[i].widgetOpens = 0

\* C5: a step in which a submission fails leaves the form on screen and
\* editable and does not touch the draft, in both form variants.
C5_FailureKeepsFormEditable ==
    [][ \A i \in SubIds :
          (subs[i].phase # "failed" /\ subs'[i].phase = "failed") =>
              /\ FormVisible'
              /\ formData' = formData
              /\ selectedPriceName' = selectedPriceName
              /\ appliedPromo' = appliedPromo ]_vars

\* C6: in every form variant, while the loaded event has special prices, is
\* not free and no tier is selected, the submit control is disabled.
C6_BlockedWithoutTier ==
    ( /\ FormVisible
      /\ Val(event).hasSpecialPrices
      /\ ~Val(event).isFree
      /\ ~IsSome(selectedPriceName) ) => SubmitDisabled

\* C7 as stated: in the pricing form, while the loaded event has special
\* prices and no tier is selected, the submit control is disabled, free
\* event or not.
C7_TierMandatoryAlsoWhenFree ==
    ( /\ variant = "pricing"
      /\ FormVisible
      /\ Val(event).hasSpecialPrices
      /\ ~IsSome(selectedPriceName) ) => SubmitDisabled

\* C7 as amended: in the pricing form, while the loaded event has special
\* prices, is not free and no tier is selected, the submit control is
\* disabled, and every register payload sent for such an event names a tier.
C7_TierMandatoryWhenPaid ==
    ( /\ variant = "pricing"
      /\ IsSome(event)
      /\ Val(event).hasSpecialPrices
      /\ ~Val(event).isFree ) =>
        /\ (FormVisible /\ ~IsSome(selectedPriceName)) => SubmitDisabled
        /\ \A i \in SubIds : IsSome(subs[i].data.specialPrice)

\* C7 witness: the pricing form has sent a payload for a paid event with
\* special prices.
C7_Witness ==
    /\ variant = "pricing"
    /\ IsSome(event) /\ Val(event).hasSpecialPrices /\ ~Val(event).isFree
    /\ \E i \in SubIds : subs[i].data.specialPrice = Some("Student")

\* The amount of the tier with the given name
AmountOfTier(ev, tierName) ==
    LET k == CHOOSE k \in 1..Len(ev.specialPrices) : ev.specialPrices[k].name = tierName
    IN  ev.specialPrices[k].amount

\* C8: with a loaded event, baseAmount is the amount of the selected tier,
\* otherwise the event's flat price, otherwise 0.
C8_BaseAmount ==
    IsSome(event) =>
        baseAmount = Scale *
            ( IF IsSome(selectedPriceName)
              THEN AmountOfTier(Val(event), Val(selectedPriceName))
              ELSE IF IsSome(Val(event).price) THEN Val(Val(event).price) ELSE 0 )

\* C8 witness: a tier whose amount differs from the flat price is selected.
C8_Witness ==
    /\ IsSome(event)
    /\ Val(event).price = Some(1000)
    /\ selectedPriceName = Some("Regular")
    /\ baseAmount = 1200 * Scale

\* C9: discountAmount is 0 without a promo, the value of a flat promo, and
\* baseAmount * value / 100 for a percentage promo; subtotal is
\* max(0, baseAmount - discountAmount); base 1000 with SAVE10 gives 100 and 900.
C9_DiscountAndSubtotal ==
    /\ ~IsSome(appliedPromo) => discountAmount = 0
    /\ IsSome(appliedPromo) =>
          IF Val(appliedPromo).type = "percentage"
          THEN discountAmount * 100 = baseAmount * Val(appliedPromo).value
          ELSE discountAmount = Val(appliedPromo).value * Scale
    /\ subtotal = IF baseAmount > discountAmount THEN baseAmount - discountAmount ELSE 0
    /\ (baseAmount = 1000 * Scale /\ appliedPromo = Some(PromoList[1])) =>
          (discountAmount = 100 * Scale /\ subtotal = 900 * Scale)

\* C9 witness: a percentage promo is applied and a tier is selected, so the
\* discount is 10% of the tier's amount.
C9_Witness ==
    /\ appliedPromo = Some(PromoList[1])
    /\ selectedPriceName = Some("Regular")
    /\ discountAmount = 120 * Scale
    /\ subtotal = 1080 * Scale

\* C10: platformFeeAmount is 0 unless hasPlatformFee and
\* passPlatformFeeToUser; then the flat platformFee, or
\* subtotal * platformFee / 100 for a percentage fee; totalAmount is
\* subtotal + platformFeeAmount.
C10_PlatformFee ==
    IsSome(event) =>
        LET ev == Val(event)
            fee == IF IsSome(ev.platformFee) THEN Val(ev.platformFee) ELSE 0
        IN  /\ ~ev.passPlatformFeeToUser => platformFeeAmount = 0
            /\ ~ev.hasPlatformFee => platformFeeAmount = 0
            /\ (ev.hasPlatformFee /\ ev.passPlatformFeeToUser) =>
                  IF ev.platformFeeType = "percentage"
                  THEN platformFeeAmount * 100 = subtotal * fee
                  ELSE platformFeeAmount = fee * Scale
            /\ totalAmount = SubtotalOf(baseAmount, discountAmount) + platformFeeAmount

\* C10 witness: a percentage fee is charged on a discounted subtotal.
C10_Witness ==
    /\ IsSome(event)
    /\ Val(event).hasPlatformFee /\ Val(event).passPlatformFeeToUser
    /\ Val(event).platformFeeType = "percentage"
    /\ subtotal = 900 * Scale
    /\ baseAmount = 1000 * Scale
    /\ platformFeeAmount = 45 * Scale

\* C11 as stated: without special prices and without a promo, totalAmount is
\* the event's price, whatever the platform-fee policy.
C11_TotalIsPrice ==
    ( /\ IsSome(event)
      /\ ~Val(event).hasSpecialPrices
      /\ ~IsSome(appliedPromo) ) =>
        totalAmount = OrZero(Val(event).price) * Scale

\* C11 as amended: without special prices and without a promo, totalAmount
\* is the event's price (0 without one) plus the platform fee charged on
\* it, hence the price itself when no fee is passed to the user.
C11_TotalIsPricePlusFee ==
    ( /\ IsSome(event)
      /\ ~Val(event).hasSpecialPrices
      /\ ~IsSome(appliedPromo) ) =>
        LET ev == Val(event)
            price == IF IsSome(ev.price) THEN Val(ev.price) ELSE 0
            rate == IF IsSome(ev.platformFee) THEN Val(ev.platformFee) ELSE 0
        IN  IF ev.hasPlatformFee /\ ev.passPlatformFeeToUser
            THEN IF ev.platformFeeType = "percentage"
                 THEN totalAmount * 100 = price * Scale * (100 + rate)
                 ELSE totalAmount = (price + rate) * Scale
            ELSE totalAmount = price * Scale

\* C11 witness: a flat fee of 20 is passed to the user on a price of 1000.
C11_Witness ==
    /\ IsSome(event)
    /\ ~Val(event).hasSpecialPrices
    /\ ~IsSome(appliedPromo)
    /\ Val(event).price = Some(1000)
    /\ Val(event).hasPlatformFee /\ Val(event).passPlatformFeeToUser
    /\ totalAmount = 1020 * Scale

\* Indices of the active entries of the event's promo list whose code is
\* the given text up to letter case
ActiveMatches(ev, text) ==
    { k \in 1..Len(ev.promoCodes) :
        /\ ToUpperCase(ev.promoCodes[k].code) = ToUpperCase(text)
        /\ ev.promoCodes[k].isActive }

\* C12: applying a non-empty text that matches an active entry up to letter
\* case makes that entry the applied promo and clears the error; an
\* inactive entry is never the applied promo.
C12_ApplyValidPromo ==
    [][ justApplied' =>
          LET hits == ActiveMatches(Val(event), promoCode)
          IN  /\ (promoCode # "" /\ hits # {}) =>
                    /\ \E k \in hits :
                          /\ \A j \in hits : k <= j
                          /\ appliedPromo' = Some(Val(event).promoCodes[k])
                    /\ error' = None
              /\ IsSome(appliedPromo') => Val(appliedPromo').isActive ]_vars

\* C12 witness: a code typed in another letter case than the list's was
\* applied after the only submission had failed, and no error is left.
C12_Witness ==
    /\ justApplied
    /\ promoCode = "FLAT500"
    /\ appliedPromo = Some(PromoList[2])
    /\ Len(subs) = 1 /\ subs[1].phase = "failed"
    /\ error = None

\* C13 as stated: after applying a text that matches no active entry, the
\* empty text included, the error is shown, no promo is applied and the
\* discount is 0.
C13_MismatchAlwaysClears ==
    (justApplied /\ ActiveMatches(Val(event), promoCode) = {}) =>
        /\ error = Some(InvalidPromo)
        /\ appliedPromo = None
        /\ discountAmount = 0

\* C13 as amended: applying a non-empty text that matches no active entry
\* shows the error, removes the applied promo and makes the discount 0;
\* applying the empty text changes neither the error nor the applied promo.
C13_MismatchClears ==
    [][ justApplied' =>
          IF promoCode = ""
          THEN error' = error /\ appliedPromo' = appliedPromo
          ELSE ActiveMatches(Val(event), promoCode) = {} =>
                  /\ error' = Some(InvalidPromo)
                  /\ appliedPromo' = None
                  /\ discountAmount' = 0 ]_vars

\* C13 witness: the code of an inactive entry was applied.
C13_Witness ==
    /\ justApplied
    /\ promoCode = "OLD50"
    /\ error = Some(InvalidPromo)
    /\ appliedPromo = None
    /\ discountAmount = 0

\* C14: the confirmation payload is the payload of the first call of the
\* submission, field by field, plus paymentId and orderId from the widget's
\* response and registrationId from the first call's result.
C14_ConfirmationPayload ==
    \A i \in SubIds :
        IsSome(subs[i].confirmData) =>
            LET sent == Val(subs[i].confirmData)
                first == subs[i].data
                added == {"paymentId", "orderId", "registrationId"}
            IN  /\ DOMAIN sent = DOMAIN first \cup added
                /\ \A f \in DOMAIN first : sent[f] = first[f]
                /\ sent.paymentId = Val(subs[i].response).razorpay_payment_id
                /\ sent.orderId = Val(subs[i].response).razorpay_order_id
                /\ sent.registrationId = Val(subs[i].result).registrationId

\* C14 witness: a confirmation call was issued after the draft had been
\* edited while the widget was open.
C14_Witness ==
    \E i \in SubIds :
        /\ IsSome(subs[i].confirmData)
        /\ BuildData.name # subs[i].data.name

\* C15: every request answered with a non-successful HTTP response fails
\* with a VihayaError whose message is the body's `error` field, or the
\* generic message when there is none, and which carries the HTTP status
\* and the decoded body.
C15_NotOkGivesVihayaError ==
    \A i \in 1..Len(calls) :
        (IsSome(calls[i].response) /\ ~Ok(Val(calls[i].response))) =>
            LET resp == Val(calls[i].response)
                out == Val(calls[i].outcome)
            IN  /\ out.kind = "VihayaError"
                /\ out.message = IF IsSome(resp.body.error)
                                 THEN Val(resp.body.error)
                                 ELSE GenericApiError
                /\ out.status = Some(resp.status)
                /\ out.body = Some(resp.body)

\* C16: the message on screen was passed to onError, and the message of
\* every failed submission was passed to onError.
C16_EveryErrorReported ==
    /\ IsSome(error) => \E k \in 1..Len(onErrorLog) : onErrorLog[k].msg = Val(error)
    /\ \A i \in SubIds :
          IsSome(subs[i].failure) => ErrorReported(i, Val(subs[i].failure))

\* onError was called for a failed event load
LoadHasFailed == \E k \in 1..Len(onErrorLog) : onErrorLog[k].sub = 0

\* C17: once the event load has failed, no further events.get call is
\* issued and the form never becomes editable.
C17_LoadFailureTerminal ==
    [][ LoadHasFailed => (getCalls' = getCalls /\ ~FormVisible') ]_vars

\* C18: when a submission fails because the checkout script is missing,
\* the widget was not opened, onError got the configuration message,
\* onSuccess was not called, and the submit control is on screen and enabled.
C18_ConfigErrorReenables ==
    [][ \A i \in SubIds :
          (subs[i].phase = "registering" /\ subs'[i].cause = "config") =>
              /\ subs'[i].widgetOpens = 0
              /\ error' = Some(RazorpayMissing)
              /\ onErrorLog' = Append(onErrorLog, [sub |-> i, msg |-> RazorpayMissing])
              /\ onSuccessLog' = onSuccessLog
              /\ FormVisible'
              /\ ~SubmitDisabled' ]_vars

\* C19: every request carries x-api-key with the key the client was
\* constructed with, even when the extra headers name x-api-key; every other
\* extra header is sent as configured, and Content-Type is application/json
\* unless an extra header replaces it.
C19_HeadersOfEveryRequest ==
    \A i \in 1..Len(calls) :
        LET h == calls[i].headers
        IN  /\ "x-api-key" \in DOMAIN h
            /\ h["x-api-key"] = apiKey
            /\ "Content-Type" \in DOMAIN h
            /\ "Content-Type" \notin DOMAIN extraHeaders =>
                   h["Content-Type"] = "application/json"
            /\ \A k \in DOMAIN extraHeaders \ {"x-api-key"} :
                   k \in DOMAIN h /\ h[k] = extraHeaders[k]

\* C20: every register payload of the forms, first call and confirmation
\* call, carries the source marker.
C20_SourceMarker ==
    \A i \in SubIds :
        /\ IsSome(subs[i].data.source)
        /\ IsSome(subs[i].confirmData) => IsSome(Val(subs[i].confirmData).source)

C22_RequiredFieldsFilled ==
    \A i \in SubIds :
        \A k \in 1..Len(Val(event).customFields) :
            Val(event).customFields[k].required =>
                FieldValue(subs[i].data, Val(event).customFields[k].name) # ""

\* C23: when the first register call resolves with an orderId and the
\* widget is available, the widget is constructed and opened once, with
\* key, amount, currency and order_id of the register result, the prefill
\* of the submitted payload and the colour of the themeColor prop; no
\* submission ever opens the widget twice.
C23_WidgetOpenedOnce ==
    [][ \A i \in 1..Len(subs') :
          /\ subs'[i].widgetOpens <= 1
          /\ ( /\ i <= Len(subs)
               /\ subs[i].phase = "registering"
               /\ IsSome(subs'[i].result)
               /\ IsSome(Val(subs'[i].result).orderId)
               /\ razorpay ) =>
                 LET result == Val(subs'[i].result)
                 IN  /\ subs'[i].widgetOpens = 1
                     /\ subs'[i].options =
                          Some([ key |-> result.key,
                                 amount |-> result.amount,
                                 currency |-> result.currency,
                                 order_id |-> result.orderId,
                                 prefill |-> [name |-> subs[i].data.name],
                                 theme |-> [color |-> themeColor] ])
          /\ (i <= Len(subs) /\ IsSome(subs[i].options)) =>
                 subs'[i].options = subs[i].options ]_vars

\* C23 witness: a widget was opened once with the host page's colour and an
\* amount that is not the total the form computed.
C23_Witness ==
    \E i \in SubIds :
        /\ subs[i].widgetOpens = 1
        /\ IsSome(subs[i].options)
        /\ Val(subs[i].options).theme.color = "#ff0000"
        /\ Val(subs[i].options).amount # Some(totalAmount)
        /\ Val(subs[i].options).prefill.name = "Ann"

\* C24: a register call is issued only when the event is available; a
\* confirmation call only after the first call of the same submission
\* resolved with an orderId and the checkout handler fired; a form given
\* its event by the caller issues no events.get call.
C24_CallsOrdered ==
    /\ subs # <<>> => IsSome(event)
    /\ \A i \in SubIds :
          /\ subs[i].registerCalls \in {1, 2}
          /\ subs[i].registerCalls = 2 =>
                /\ HasOrder(i)
                /\ subs[i].handlerCalls = 1
                /\ IsSome(subs[i].confirmData)
          /\ IsSome(subs[i].confirmData) => subs[i].registerCalls = 2
    /\ IsSome(initialEvent) => getCalls = 0

\* C24 witness: a fetched event, a confirmation call issued; and a form
\* with a supplied event that went through a submission.
C24_Witness ==
    /\ ~IsSome(initialEvent)
    /\ getCalls = 2
    /\ \E i \in SubIds : subs[i].registerCalls = 2

\* C25: while the first register call of a submission has not settled the
\* submitting flag is set and the submit control is disabled; the step that
\* settles the call, either way, leaves the flag false.
C25_DisabledUntilSettled ==
    [][ \A i \in SubIds :
          subs[i].phase = "registering" =>
              /\ submitting
              /\ FormVisible => SubmitDisabled
              /\ subs'[i].phase # "registering" => ~submitting' ]_vars

\* C25 witness: one call settled with an error, another with a result, and
\* the flag is false.
C25_Witness ==
    /\ ~submitting
    /\ \E i, j \in SubIds :
          /\ subs[i].cause = "register"
          /\ IsSome(subs[j].result)

\* C26: a form that is in Loading has an events.get call in flight, so it
\* leaves Loading once the calls it issued have settled; this for every
\* eventId, the empty one included.
C26_LeavesLoading ==
    loading => getPending > 0

\* C27: in the pricing form the applied promo is null or an active entry
\* of the loaded event's promo list, the selected tier is null or a tier of
\* the loaded event, and the promoCode and specialPrice of every payload
\* sent name such an entry and such a tier.
C27_PromoAndTierOfEvent ==
    variant = "pricing" =>
        LET ActiveCode(c) ==
                /\ IsSome(event)
                /\ \E k \in 1..Len(Val(event).promoCodes) :
                      /\ Val(event).promoCodes[k].code = c
                      /\ Val(event).promoCodes[k].isActive
            TierName(n) ==
                /\ IsSome(event)
                /\ \E k \in 1..Len(Val(event).specialPrices) :
                      Val(event).specialPrices[k].name = n
        IN  /\ IsSome(appliedPromo) =>
                  /\ ActiveCode(Val(appliedPromo).code)
                  /\ \E k \in 1..Len(Val(event).promoCodes) :
                        Val(event).promoCodes[k] = Val(appliedPromo)
            /\ IsSome(selectedPriceName) => TierName(Val(selectedPriceName))
            /\ \A i \in SubIds :
                  /\ IsSome(subs[i].data.promoCode) =>
                        ActiveCode(Val(subs[i].data.promoCode))
                  /\ IsSome(subs[i].data.specialPrice) =>
                        TierName(Val(subs[i].data.specialPrice))
                  /\ IsSome(subs[i].confirmData) =>
                        /\ Val(subs[i].confirmData).promoCode = subs[i].data.promoCode
                        /\ Val(subs[i].confirmData).specialPrice = subs[i].data.specialPrice

\* C27 witness: a payload was sent with the applied code while the promo
\* input held another text that is not a code of the event.
C27_Witness ==
    /\ variant = "pricing"
    /\ promoCode = "NOPE"
    /\ \E i \in SubIds : subs[i].data.promoCode = Some("Flat500")

\* C28: the widget is looked for only once the first register call has
\* resolved with an orderId.  Every submission issues its register request,
\* also on a page without the widget; the configuration error follows a
\* result with an orderId; a result without one completes the submission
\* though the widget is missing.
C28_WidgetCheckedAfterRegister ==
    [][ /\ Len(subs') > Len(subs) =>
              /\ subs'[Len(subs')].registerCalls = 1
              /\ subs'[Len(subs')].phase = "registering"
        /\ \A i \in SubIds :
              subs[i].phase = "registering" =>
                  /\ subs'[i].cause = "config" =>
                        /\ subs[i].registerCalls = 1
                        /\ subs'[i].registerCalls = 1
                        /\ IsSome(subs'[i].result)
                        /\ IsSome(Val(subs'[i].result).orderId)
                        /\ ~razorpay
                  /\ ( /\ ~razorpay
                       /\ IsSome(subs'[i].result)
                       /\ ~IsSome(Val(subs'[i].result).orderId) ) =>
                        /\ subs'[i].phase = "completed"
                        /\ error' = error
                        /\ onSuccessLog' =
                             Append(onSuccessLog,
                                    [sub |-> i,
                                     id |-> Val(subs'[i].result).registrationId]) ]_vars

\* C28 witness: on a page without the widget one submission completed
\* without an order and another one ended in the configuration error.
C28_Witness ==
    /\ ~razorpay
    /\ \E i, j \in SubIds :
          /\ subs[i].phase = "completed" /\ NoOrder(i)
          /\ subs[j].cause = "config" /\ subs[j].registerCalls = 1

\* The roster after one roster action on it
AfterAction(members, a) ==
    IF a.kind = "add" THEN Append(members, [name |-> "", email |-> "", phone |-> ""])
    ELSE IF a.kind = "remove"
         THEN IF a.index > Len(members) THEN members
              ELSE [j \in 1..(Len(members) - 1) |->
                       IF j < a.index THEN members[j] ELSE members[j + 1]]
         ELSE UpdateAt(members, a.index, a.field, a.value)

\* The roster after the actions of a queue, applied one after another
InOrder(members, queue) ==
    LET f[k \in 0..Len(queue)] ==
            IF k = 0 THEN members ELSE AfterAction(f[k - 1], queue[k])
    IN  f[Len(queue)]

\* C29: the roster a render produces is the roster before it with the
\* roster actions dispatched since applied one after another, in order.
C29_NoLostEdits ==
    [][ (pending # <<>> /\ pending' = <<>>) =>
          formData'.teamMembers = InOrder(formData.teamMembers, pending) ]_vars

\* C30: for every overlay the removal routine runs at most once and never
\* while an element of the overlay is already detached, whatever clicks
\* and messages arrive; only messages from the base URL's origin schedule
\* a removal.
C30_RemovalRunsOnce ==
    \A i \in 1..Len(overlays) :
        /\ overlays[i].removeRuns <= 1
        /\ overlays[i].detachedRuns = 0
        /\ overlays[i].scheduledBy \subseteq {BaseUrl}

====
